---- MODULE Spec2Model ----
(***************************************************************************)
(* Family Task Management API (src/index.js): the task lifecycle and the   *)
(* scoring engine, as a state machine.                                     *)
(*                                                                         *)
(* The store holds one Family document per family (its member registry)    *)
(* and the Task documents.  Every HTTP request runs the authenticate hook  *)
(* (which loads the caller's Family document) and then its handler; a      *)
(* handler is suspended at each `await` of a store operation, so a request *)
(* is a process whose steps are its store operations, and the steps of     *)
(* different requests interleave.                                          *)
(*                                                                         *)
(* A document loaded by a request is a private copy.  save() of a loaded   *)
(* document sends the paths the handler modified ($set of the assigned     *)
(* fields, $push of a pushed array element); the Family document carries   *)
(* the schema's version key, incremented by a $push and required to be     *)
(* unchanged by a $set below an array position.                            *)
(***************************************************************************)
EXTENDS Integers, Sequences, FiniteSets, TLC

\* ---------------------------------------------------------------- bounds
NumReqs == 2
MaxTasks == 2
MaxMembers == 2
MaxScore == 2
MaxInstant == 2
MaxComments == 1
MaxCreated == 1

Reqs == 1..NumReqs
TaskIds == 1..MaxTasks
Instants == 1..MaxInstant
Families == {"F1", "F2"}
MemberNames == {"Alice", "Bob"}
\* assignedTo is a free string: it may name nobody of the registry
NoName == ""
\* a field the request body does not carry
Absent == "absent"
\* memberScore / completedAt left out of a reply
Omitted == -1

VARIABLES
  family,    \* store: family id -> Family document (members, version key)
  tasks,     \* store: task id -> Task document
  nextId,    \* the next fresh task id
  pc,        \* per request: the store operation it is suspended at
  req,       \* per request: route, caller and task id
  snap,      \* per request: request.family, loaded by authenticate
  doc,       \* per request: the Task document loaded by findOne, as modified
  dirty,     \* per request: the modified paths of doc
  log,       \* history, per request: the writes it has issued, in order
  out,       \* history: the call that returned last: its request, the Family
             \* it loaded, its reply and the writes it issued
  credits,   \* history: per task, the score writes persisted for it
  incs       \* history: per family and member, the score writes persisted

vars == <<family, tasks, nextId, pc, req, snap, doc, dirty, log, out,
          credits, incs>>
store == <<family, tasks, nextId>>

\* ------------------------------------------------------------- documents
\* TaskSchema: family, assignedTo, dueDate, completed (default false),
\* completedAt, comments (their number), createdAt (timestamps); a date is an
\* instant, 0 when the field is not set; exists is FALSE for an id with no
\* document.
NoTask ==
  [exists |-> FALSE, family |-> "", assignedTo |-> NoName, dueDate |-> 0,
   completed |-> FALSE, completedAt |-> 0, comments |-> 0, createdAt |-> 0]

\* new Task({ family, dueDate, assignedTo }) saved at instant `now`
DatedTask(fam, assignedTo, dueDate, now) ==
  [exists |-> TRUE, family |-> fam, assignedTo |-> assignedTo,
   dueDate |-> dueDate, completed |-> FALSE, completedAt |-> 0,
   comments |-> 0, createdAt |-> now]

NewTask(fam, assignedTo) == DatedTask(fam, assignedTo, 0, 1)

\* FamilySchema: members [MemberSchema {name, score default 0}], version key
NewMember(name) == [name |-> name, score |-> 0]
NewFamily(names) ==
  [members |-> [i \in 1..Len(names) |-> NewMember(names[i])], version |-> 0]
NoFamily == NewFamily(<<>>)

\* a request: route, caller, task id, and the dueDate of its body (0: none)
NoReq == [op |-> "none", fam |-> "", tid |-> 0, due |-> 0]
NoReply ==
  [status |-> 0, completed |-> FALSE, completedAt |-> Omitted,
   memberScore |-> Omitted, query |-> Omitted, body |-> <<>>]
Reply(status) == [NoReply EXCEPT !.status = status]
NoCall == [req |-> NoReq, snap |-> NoFamily, reply |-> NoReply, log |-> <<>>]

\* ------------------------------------------------------------- helpers
\* (mutant) the lookup takes the first member whatever its name
MemberIndex_First(members, name) == IF Len(members) > 0 THEN 1 ELSE 0

\* (mutant) the lookup takes the last member of that name
MemberIndex_Last(members, name) ==
  IF \E i \in 1..Len(members) : members[i].name = name
  THEN CHOOSE i \in 1..Len(members) :
         /\ members[i].name = name
         /\ \A j \in (i + 1)..Len(members) : members[j].name # name
  ELSE 0

\* members.find(m => m.name === name): the first index, 0 when none
MemberIndex(members, name) ==
  IF \E i \in 1..Len(members) : members[i].name = name
  THEN CHOOSE i \in 1..Len(members) :
         /\ members[i].name = name
         /\ \A j \in 1..(i - 1) : members[j].name # name
  ELSE 0

\* (mutant) every name passes the membership test
MemberExists_Always(members, name) == TRUE

\* members.some(m => m.name === name)
MemberExists(members, name) ==
  \E i \in 1..Len(members) : members[i].name = name

\* (mutant) the lookup is by id alone
FindTask_AnyFamily(id, fam) ==
  IF id \in TaskIds /\ tasks[id].exists THEN tasks[id] ELSE NoTask

\* Task.findOne({ _id: id, family: fam })
FindTask(id, fam) ==
  IF id \in TaskIds /\ tasks[id].exists /\ tasks[id].family = fam
  THEN tasks[id]
  ELSE NoTask

\* (mutant) the Task write is not persisted before the handler goes on
SaveTask_Nothing(stored, d, paths) == stored

\* task.save() of a loaded document: the modified paths are $set
SaveTask(stored, d, paths) ==
  [f \in DOMAIN stored |-> IF f \in paths THEN d[f] ELSE stored[f]]

\* a PUT body: the fields it carries; the body schema lists title,
\* description, priority, dueDate, assignedTo and completed and does not
\* forbid others, so a body may carry any path of the Task schema
NoUpdate == [f \in {} |-> Absent]
Bodies(due) ==
  IF due # 0
  THEN {[f \in {"dueDate"} |-> due]}
  ELSE {NoUpdate}
         \cup {[f \in {"completed"} |-> b] : b \in BOOLEAN}
         \cup {[f \in {"assignedTo"} |-> a] : a \in MemberNames \cup {NoName}}
         \cup {[f \in {"completedAt"} |-> d] : d \in Instants}
         \cup {[f \in {"family"} |-> g] : g \in Families}

\* Object.assign(task, update) and the completedAt rule of the PUT handler
AssignUpdate(t, update, now) ==
  LET a == [f \in DOMAIN t |-> IF f \in DOMAIN update THEN update[f] ELSE t[f]]
  IN  IF "completed" \in DOMAIN update /\ update.completed /\ a.completedAt = 0
      THEN [a EXCEPT !.completedAt = now]
      ELSE a

\* the paths of d that differ from the loaded document
Modified(t, d) == {f \in DOMAIN t : d[f] # t[f]}

\* task.completed = true; task.completedAt = date ? new Date(date) : new Date()
CompletedDoc(t, at) == [t EXCEPT !.completed = TRUE, !.completedAt = at]

\* the member a completion credits: the first of the loaded registry whose
\* name is the task's assignedTo (0: no assignee, or nobody of that name)
Credited(members, assignedTo) ==
  IF assignedTo # NoName THEN MemberIndex(members, assignedTo) ELSE 0

\* (mutant) the score moves by 2
Incremented_Twice(score) == score + 2

\* member.score += 1
Incremented(score) == score + 1

\* (mutant) the score write adds 1 to the stored score ($inc)
SaveScore_Inc(stored, i, score) == [stored EXCEPT !.members[i].score = @ + 1]

\* family.save() after member.score += 1: $set members.<i>.score
SaveScore(stored, i, score) == [stored EXCEPT !.members[i].score = score]

\* family.save() after members.push(member): $push, and the version key moves
PushMember(stored, member) ==
  [members |-> Append(stored.members, member), version |-> stored.version + 1]

\* the requests in flight at store operation `at`
InFlight(at) == {q \in Reqs : pc[q] = at}

\* ------------------------------------------------------------- requests
TaskOps == {"update", "delete", "assign", "complete", "comment"}
ListOps == {"overdue", "members", "history"}
CallsOf(fams, dues) ==
  {[op |-> o, fam |-> f, tid |-> t, due |-> 0] :
     o \in TaskOps, f \in fams, t \in TaskIds}
    \cup {[op |-> "update", fam |-> f, tid |-> t, due |-> d] :
             f \in fams, t \in TaskIds, d \in dues}
    \cup {[op |-> "createTask", fam |-> f, tid |-> 0, due |-> d] :
             f \in fams, d \in dues \cup {0}}
    \cup {[op |-> o, fam |-> f, tid |-> 0, due |-> 0] :
             o \in ListOps \cup {"addMember"}, f \in fams}

\* the first store operation of each handler
FirstOp(op) ==
  CASE op = "addMember" -> "push"
    [] op = "createTask" -> "insert"
    [] op = "delete" -> "remove"
    [] op \in ListOps -> "list"
    [] OTHER -> "find"

\* the members of all registries together
RECURSIVE SumLen(_)
SumLen(fams) ==
  IF fams = {} THEN 0
  ELSE LET f == CHOOSE x \in fams : TRUE
       IN  Len(family[f].members) + SumLen(fams \ {f})
Registered == SumLen(Families)

\* the bounds of the model: members, created tasks, score, comments
Admitted(c) ==
  CASE c.op = "addMember" ->
         Registered + Cardinality(InFlight("push")) < MaxMembers
    [] c.op = "createTask" ->
         nextId + Cardinality(InFlight("insert")) <= MaxCreated
    [] c.op = "complete" ->
         \A i \in 1..Len(family[c.fam].members) :
           family[c.fam].members[i].score < MaxScore
    [] c.op = "comment" ->
         tasks[c.tid].comments
           + Cardinality({q \in Reqs : req[q].op = "comment" /\ req[q].tid = c.tid})
             < MaxComments
    [] OTHER -> TRUE

\* a handler returns (or throws): the reply is sent, the loaded copies are gone
Finish(r, reply, writes) ==
  /\ pc' = [pc EXCEPT ![r] = "idle"]
  /\ out' = [req |-> req[r], snap |-> snap[r], reply |-> reply, log |-> writes]
  /\ req' = [req EXCEPT ![r] = NoReq]
  /\ snap' = [snap EXCEPT ![r] = NoFamily]
  /\ doc' = [doc EXCEPT ![r] = NoTask]
  /\ dirty' = [dirty EXCEPT ![r] = {}]
  /\ log' = [log EXCEPT ![r] = <<>>]

\* the handler goes on to its next store operation
Goto(r, at) == pc' = [pc EXCEPT ![r] = at] /\ UNCHANGED out

\* fastify.authenticate without a valid token: 401, the handler does not run
Unauthorized(r) ==
  /\ pc[r] = "idle"
  /\ Finish(r, Reply(401), <<>>)
  /\ UNCHANGED <<store, credits, incs>>

\* fastify.authenticate: the token names the family, Family.findById loads it
Begin(r, calls) ==
  /\ pc[r] = "idle"
  /\ UNCHANGED <<store, credits, incs, doc, dirty, log>>
  /\ \E c \in calls :
       /\ Admitted(c)
       /\ req' = [req EXCEPT ![r] = c]
       /\ snap' = [snap EXCEPT ![r] = family[c.fam]]
       /\ Goto(r, FirstOp(c.op))

\* POST /api/members
AddMember(r) ==
  /\ pc[r] = "push"
  /\ \E name \in MemberNames :
       /\ family' = [family EXCEPT ![req[r].fam] = PushMember(@, NewMember(name))]
       /\ incs' = [incs EXCEPT ![req[r].fam] = Append(@, 0)]
  /\ Finish(r, Reply(201), <<"family">>)
  /\ UNCHANGED <<tasks, nextId, credits>>

\* POST /api/tasks
CreateTask(r) ==
  /\ pc[r] = "insert"
  /\ \E a \in MemberNames \cup {NoName}, now \in Instants :
       tasks' = [tasks EXCEPT ![nextId] = DatedTask(req[r].fam, a, req[r].due, now)]
  /\ nextId' = nextId + 1
  /\ Finish(r, Reply(201), <<"task">>)
  /\ UNCHANGED <<family, credits, incs>>

\* task.save() of the PUT, assign and comment handlers: `stored` is what the
\* update leaves in the store; a document deleted meanwhile makes save throw
WriteTask(r, stored, status) ==
  IF tasks[req[r].tid].exists
  THEN /\ tasks' = [tasks EXCEPT ![req[r].tid] = stored]
       /\ Finish(r, [Reply(status) EXCEPT !.completed = doc[r].completed], <<"task">>)
  ELSE /\ UNCHANGED tasks
       /\ Finish(r, Reply(500), <<>>)

\* PUT /api/tasks/:id
UpdateFind(r) ==
  /\ pc[r] = "find" /\ req[r].op = "update"
  /\ UNCHANGED <<store, credits, incs>>
  /\ LET t == FindTask(req[r].tid, req[r].fam)
     IN  IF ~t.exists
         THEN Finish(r, Reply(404), <<>>)
         ELSE \E update \in Bodies(req[r].due), now \in Instants :
                /\ doc' = [doc EXCEPT ![r] = AssignUpdate(t, update, now)]
                /\ dirty' = [dirty EXCEPT ![r] = Modified(t, doc'[r])]
                /\ Goto(r, "saveTask")
                /\ UNCHANGED <<req, snap, log>>

UpdateSave(r) ==
  /\ pc[r] = "saveTask" /\ req[r].op = "update"
  /\ WriteTask(r, SaveTask(tasks[req[r].tid], doc[r], dirty[r]), 200)
  /\ UNCHANGED <<family, nextId, credits, incs>>

\* (mutant) deleting a completed task takes the increment back
DeleteTask_Reverting(r) ==
  /\ pc[r] = "remove"
  /\ UNCHANGED <<nextId, credits, incs>>
  /\ LET t == FindTask(req[r].tid, req[r].fam)
         i == Credited(family[req[r].fam].members, t.assignedTo)
     IN  IF t.exists
         THEN /\ tasks' = [tasks EXCEPT ![req[r].tid] = NoTask]
              /\ family' = IF t.completed /\ i # 0
                            THEN [family EXCEPT ![req[r].fam] =
                                    SaveScore(@, i, @.members[i].score - 1)]
                            ELSE family
              /\ Finish(r, Reply(204), <<"task">>)
         ELSE /\ UNCHANGED <<tasks, family>>
              /\ Finish(r, Reply(404), <<>>)

\* DELETE /api/tasks/:id
DeleteTask(r) ==
  /\ pc[r] = "remove"
  /\ UNCHANGED <<family, nextId, credits, incs>>
  /\ IF FindTask(req[r].tid, req[r].fam).exists
     THEN /\ tasks' = [tasks EXCEPT ![req[r].tid] = NoTask]
          /\ Finish(r, Reply(204), <<"task">>)
     ELSE /\ UNCHANGED tasks
          /\ Finish(r, Reply(404), <<>>)

\* POST /api/tasks/:id/assign
AssignFind(r) ==
  /\ pc[r] = "find" /\ req[r].op = "assign"
  /\ UNCHANGED <<store, credits, incs>>
  /\ LET t == FindTask(req[r].tid, req[r].fam)
     IN  IF ~t.exists
         THEN Finish(r, Reply(404), <<>>)
         ELSE \E member \in MemberNames :
                IF ~MemberExists(snap[r].members, member)
                THEN Finish(r, [Reply(404) EXCEPT !.query = member], <<>>)
                ELSE /\ doc' = [doc EXCEPT ![r] = [t EXCEPT !.assignedTo = member]]
                     /\ dirty' = [dirty EXCEPT ![r] = Modified(t, doc'[r])]
                     /\ Goto(r, "saveTask")
                     /\ UNCHANGED <<req, snap, log>>

AssignSave(r) ==
  /\ pc[r] = "saveTask" /\ req[r].op = "assign"
  /\ WriteTask(r, SaveTask(tasks[req[r].tid], doc[r], dirty[r]), 200)
  /\ UNCHANGED <<family, nextId, credits, incs>>

\* POST /api/tasks/:id/comments
CommentFind(r) ==
  /\ pc[r] = "find" /\ req[r].op = "comment"
  /\ UNCHANGED <<store, credits, incs>>
  /\ LET t == FindTask(req[r].tid, req[r].fam)
     IN  IF ~t.exists
         THEN Finish(r, Reply(404), <<>>)
         ELSE /\ doc' = [doc EXCEPT ![r] = t]
              /\ Goto(r, "saveTask")
              /\ UNCHANGED <<req, snap, dirty, log>>

\* task.comments.push(...); task.save(): $push
CommentSave(r) ==
  /\ pc[r] = "saveTask" /\ req[r].op = "comment"
  /\ WriteTask(r, [tasks[req[r].tid] EXCEPT !.comments = @ + 1], 201)
  /\ UNCHANGED <<family, nextId, credits, incs>>

\* (mutant) the idempotent path is never taken
AlreadyComplete_Never(t) == FALSE

\* if (task.completed): the idempotent path
AlreadyComplete(t) == t.completed

\* the reply of the complete handler
Completion(t, memberScore) ==
  [Reply(200) EXCEPT !.completed = t.completed, !.completedAt = t.completedAt,
                     !.memberScore = memberScore]

\* POST /api/tasks/:id/complete, up to the first save
CompleteFind(r) ==
  /\ pc[r] = "find" /\ req[r].op = "complete"
  /\ UNCHANGED <<store, credits, incs>>
  /\ LET t == FindTask(req[r].tid, req[r].fam)
     IN  IF ~t.exists
         THEN Finish(r, Reply(404), <<>>)
         ELSE IF AlreadyComplete(t)
         THEN Finish(r, Completion(t, Omitted), <<>>)
         ELSE \E at \in Instants :
                /\ doc' = [doc EXCEPT ![r] = CompletedDoc(t, at)]
                /\ dirty' = [dirty EXCEPT ![r] = Modified(t, doc'[r])]
                /\ Goto(r, "saveTask")
                /\ UNCHANGED <<req, snap, log>>

\* (mutant) a failed Task write is swallowed and the handler goes on
CompleteSaveTask_Swallowing(r) ==
  /\ pc[r] = "saveTask" /\ req[r].op = "complete"
  /\ UNCHANGED <<family, nextId, credits, incs>>
  /\ \E ok \in BOOLEAN :
       /\ tasks' = IF ok /\ tasks[req[r].tid].exists
                   THEN [tasks EXCEPT ![req[r].tid] = SaveTask(@, doc[r], dirty[r])]
                   ELSE tasks
       /\ IF Credited(snap[r].members, doc[r].assignedTo) = 0
          THEN Finish(r, Completion(doc[r], Omitted), Append(log[r], "task"))
          ELSE /\ log' = [log EXCEPT ![r] = Append(@, "task")]
               /\ Goto(r, "saveFamily")
               /\ UNCHANGED <<req, snap, doc, dirty>>

\* await task.save(), then the member lookup
CompleteSaveTask(r) ==
  /\ pc[r] = "saveTask" /\ req[r].op = "complete"
  /\ UNCHANGED <<family, nextId, credits, incs>>
  /\ \E ok \in BOOLEAN :
       IF ~ok \/ ~tasks[req[r].tid].exists
       THEN /\ UNCHANGED tasks
            /\ Finish(r, Reply(500), log[r])
       ELSE /\ tasks' = [tasks EXCEPT ![req[r].tid] = SaveTask(@, doc[r], dirty[r])]
            /\ IF Credited(snap[r].members, doc[r].assignedTo) = 0
               THEN Finish(r, Completion(doc[r], Omitted), Append(log[r], "task"))
               ELSE /\ log' = [log EXCEPT ![r] = Append(@, "task")]
                    /\ Goto(r, "saveFamily")
                    /\ UNCHANGED <<req, snap, doc, dirty>>

\* member.score += 1; await request.family.save(), then the reply
CompleteSaveFamily(r) ==
  /\ pc[r] = "saveFamily" /\ req[r].op = "complete"
  /\ UNCHANGED <<tasks, nextId>>
  /\ LET f == req[r].fam
         i == Credited(snap[r].members, doc[r].assignedTo)
         memberScore == Incremented(snap[r].members[i].score)
     IN  \E ok \in BOOLEAN :
           IF ~ok \/ family[f].version # snap[r].version
           THEN /\ UNCHANGED <<family, credits, incs>>
                /\ Finish(r, Reply(500), log[r])
           ELSE /\ family' = [family EXCEPT ![f] = SaveScore(@, i, memberScore)]
                /\ credits' = [credits EXCEPT ![req[r].tid] = @ + 1]
                /\ incs' = [incs EXCEPT ![f][i] = @ + 1]
                /\ Finish(r, Completion(doc[r], memberScore), Append(log[r], "family"))

\* ------------------------------------------------------------- queries
\* Task.find({ family: fam }).lean(): the family's documents with their ids
Row(id) == [id |-> id, task |-> tasks[id]]
\* (mutant) the query is not filtered by family
OfFamily_Any(row, fam) == row.task.exists

OfFamily(row, fam) == row.task.exists /\ row.task.family = fam
TasksOf(fam) ==
  SelectSeq([id \in TaskIds |-> Row(id)], LAMBDA row : OfFamily(row, fam))

\* (mutant) the filter keeps the tasks due at `now` too
IsOverdue_OrNow(t, now) == ~t.completed /\ t.dueDate # 0 /\ t.dueDate <= now

\* the filter { completed: false, dueDate: { $lt: now } }: a document
\* without dueDate does not match $lt
IsOverdue(t, now) == ~t.completed /\ t.dueDate # 0 /\ t.dueDate < now

\* GET /api/alerts/overdue
Overdue(r) ==
  /\ pc[r] = "list" /\ req[r].op = "overdue"
  /\ UNCHANGED <<store, credits, incs>>
  /\ \E now \in Instants \cup {MaxInstant + 1} :
       LET found == SelectSeq(TasksOf(req[r].fam),
                              LAMBDA row : IsOverdue(row.task, now))
       IN  Finish(r, [Reply(200) EXCEPT
                        !.query = now,
                        !.body = [i \in 1..Len(found) |-> found[i].id]], <<>>)

\* (mutant) a member's record counts every task of the family
AssignedTo_Any(rows, name) == rows

\* tasks.filter(t => t.assignedTo === m.name)
AssignedTo(rows, name) ==
  SelectSeq(rows, LAMBDA row : row.task.assignedTo = name)

\* one record of the summary, for member m of request.family
MemberRecord(m, rows) ==
  LET memberTasks == AssignedTo(rows, m.name)
      completed == SelectSeq(memberTasks, LAMBDA row : row.task.completed)
  IN  [member |-> m.name, totalTasks |-> Len(memberTasks),
       completedTasks |-> Len(completed), score |-> m.score]

\* GET /api/stats/members
MemberStats(r) ==
  /\ pc[r] = "list" /\ req[r].op = "members"
  /\ UNCHANGED <<store, credits, incs>>
  /\ LET rows == TasksOf(req[r].fam)
         members == snap[r].members
     IN  Finish(r, [Reply(200) EXCEPT
                      !.body = [i \in 1..Len(members) |->
                                  MemberRecord(members[i], rows)]], <<>>)

\* ------------------------------------------------------------- calendar
\* The instants of the model are points of the calendar, in chronological
\* order: year, month (0 = January), day of the month, and the half of the
\* day (0: midnight, 1: noon), in local time.
Calendar ==
  << [year |-> 2023, month |-> 11, date |-> 30, half |-> 0],
     [year |-> 2023, month |-> 11, date |-> 31, half |-> 1],
     [year |-> 2024, month |-> 0,  date |-> 2,  half |-> 0],
     [year |-> 2024, month |-> 0,  date |-> 6,  half |-> 1],
     [year |-> 2024, month |-> 0,  date |-> 9,  half |-> 0],
     [year |-> 2024, month |-> 1,  date |-> 1,  half |-> 0],
     [year |-> 2024, month |-> 2,  date |-> 10, half |-> 0] >>
Moments == 1..Len(Calendar)

IsLeap(y) == (y % 4 = 0 /\ y % 100 # 0) \/ y % 400 = 0
MonthLengths(y) ==
  <<31, IF IsLeap(y) THEN 29 ELSE 28, 31, 30, 31, 30, 31, 31, 30, 31, 30, 31>>

\* (date - firstDayOfYear) / 86400000, whole days
RECURSIVE DaysBefore(_, _)
DaysBefore(y, month) ==
  IF month = 0 THEN 0 ELSE MonthLengths(y)[month] + DaysBefore(y, month - 1)
DayOfYear(d) == DaysBefore(d.year, d.month) + d.date - 1

\* new Date(year, 0, 1).getDay(), Sunday = 0; 1 January 2023 is a Sunday
RECURSIVE JanFirstDay(_)
JanFirstDay(y) ==
  IF y <= 2023 THEN 0
  ELSE (JanFirstDay(y - 1) + (IF IsLeap(y - 1) THEN 366 ELSE 365)) % 7

\* (mutant) Math.floor in place of Math.ceil
Ceil_Floor(a, b) == a \div b

\* Math.ceil(a / b) for b > 0
Ceil(a, b) == (a + b - 1) \div b

\* Math.ceil(((date - firstDayOfYear) / 86400000 + firstDayOfYear.getDay() + 1) / 7),
\* counted in half days
WeekNumber(d) ==
  Ceil(2 * DayOfYear(d) + d.half + 2 * (JanFirstDay(d.year) + 1), 14)

\* String(n): the decimal digits, a string being a sequence of characters
DigitChars == <<"0", "1", "2", "3", "4", "5", "6", "7", "8", "9">>
RECURSIVE Digits(_)
Digits(n) ==
  IF n < 10 THEN <<DigitChars[n + 1]>>
  ELSE Digits(n \div 10) \o <<DigitChars[(n % 10) + 1]>>

\* str.padStart(len, ch)
RECURSIVE PadStart(_, _, _)
PadStart(str, len, ch) ==
  IF Len(str) >= len THEN str ELSE PadStart(<<ch>> \o str, len, ch)

\* the bucket key of a creation date
MonthKey(d) ==
  Digits(d.year) \o <<"-">> \o PadStart(Digits(d.month + 1), 2, "0")
WeekKey(d) ==
  Digits(d.year) \o <<"-", "W">> \o PadStart(Digits(WeekNumber(d)), 2, "0")
PeriodKey(period, d) == IF period = "month" THEN MonthKey(d) ELSE WeekKey(d)

\* a.localeCompare(b) < 0 on keys: character by character, '-' before the
\* digits before 'W', a proper prefix first
Collation == <<"-">> \o DigitChars \o <<"W">>
Rank(ch) == CHOOSE i \in 1..Len(Collation) : Collation[i] = ch
RECURSIVE Precedes(_, _)
Precedes(a, b) ==
  IF b = <<>> THEN FALSE
  ELSE IF a = <<>> THEN TRUE
  ELSE IF Head(a) # Head(b) THEN Rank(Head(a)) < Rank(Head(b))
  ELSE Precedes(Tail(a), Tail(b))

\* tasks.forEach: the Map of buckets, as the sequence of its values in
\* insertion order
RECURSIVE Buckets(_, _)
Buckets(rows, period) ==
  IF rows = <<>> THEN <<>>
  ELSE LET before == Buckets(SubSeq(rows, 1, Len(rows) - 1), period)
           t == rows[Len(rows)].task
           key == PeriodKey(period, Calendar[t.createdAt])
           done == IF t.completed THEN 1 ELSE 0
       IN  IF \E i \in 1..Len(before) : before[i].period = key
           THEN [i \in 1..Len(before) |->
                   IF before[i].period = key
                   THEN [before[i] EXCEPT !.total = @ + 1, !.completed = @ + done]
                   ELSE before[i]]
           ELSE Append(before, [period |-> key, total |-> 1, completed |-> done])

\* (mutant) the buckets are returned in insertion order
SortByPeriod_Unsorted(entries) == entries

\* Array.sort((a, b) => a.period.localeCompare(b.period))
RECURSIVE SortByPeriod(_)
SortByPeriod(entries) ==
  IF entries = <<>> THEN <<>>
  ELSE LET i == CHOOSE i \in 1..Len(entries) :
                  \A j \in 1..Len(entries) :
                    /\ ~Precedes(entries[j].period, entries[i].period)
                    /\ (j < i => Precedes(entries[i].period, entries[j].period))
           rest == [k \in 1..(Len(entries) - 1) |->
                      IF k < i THEN entries[k] ELSE entries[k + 1]]
       IN  <<entries[i]>> \o SortByPeriod(rest)

\* GET /api/stats/history
History(r) ==
  /\ pc[r] = "list" /\ req[r].op = "history"
  /\ UNCHANGED <<store, credits, incs>>
  /\ \E period \in {"week", "month"} :
       Finish(r, [Reply(200) EXCEPT
                    !.query = period,
                    !.body = SortByPeriod(Buckets(TasksOf(req[r].fam), period))],
              <<>>)

\* ------------------------------------------------------- specifications
Idle ==
  /\ pc = [r \in Reqs |-> "idle"]
  /\ req = [r \in Reqs |-> NoReq]
  /\ snap = [r \in Reqs |-> NoFamily]
  /\ doc = [r \in Reqs |-> NoTask]
  /\ dirty = [r \in Reqs |-> {}]
  /\ log = [r \in Reqs |-> <<>>]
  /\ out = NoCall

\* POST /api/families/register: F1 registers with one member, F2 with none
Init ==
  /\ family = [f \in Families |-> IF f = "F1" THEN NewFamily(<<"Alice">>) ELSE NoFamily]
  /\ incs = [f \in Families |-> [i \in 1..Len(family[f].members) |-> 0]]
  /\ tasks = [t \in TaskIds |-> NoTask]
  /\ nextId = 1
  /\ credits = [t \in TaskIds |-> 0]
  /\ Idle

Authenticate(r) ==
  Begin(r, {c \in CallsOf(Families, {}) : c.op \notin ListOps})

Handler(r) ==
  \/ AddMember(r)
  \/ CreateTask(r)
  \/ UpdateFind(r)
  \/ UpdateSave(r)
  \/ DeleteTask(r)
  \/ AssignFind(r)
  \/ AssignSave(r)
  \/ CommentFind(r)
  \/ CommentSave(r)
  \/ CompleteFind(r)
  \/ CompleteSaveTask(r)
  \/ CompleteSaveFamily(r)

\* Spec: the routes that write, the requests served one after the other (a
\* request arrives when no other is in flight, and takes the first slot):
\* the contracts of the operations.
Arrive(r) == (\A q \in Reqs : pc[q] = "idle") /\ r = 1 /\ Authenticate(r)

Next == \E r \in Reqs : Arrive(r) \/ Unauthorized(r) \/ Handler(r)

Spec == Init /\ [][Next]_vars

\* RaceSpec: requests are handled independently and concurrently.  Complete
\* and member-creation requests of one family, interleaved at their awaits,
\* over tasks that exist already.
RaceInit ==
  /\ \E names \in {<<"Alice">>, <<"Alice", "Bob">>} :
       family = [f \in Families |-> IF f = "F1" THEN NewFamily(names) ELSE NoFamily]
  /\ incs = [f \in Families |-> [i \in 1..Len(family[f].members) |-> 0]]
  /\ tasks \in [TaskIds -> {NewTask("F1", a) : a \in MemberNames \cup {NoName}}]
  /\ nextId = MaxTasks + 1
  /\ credits = [t \in TaskIds |-> 0]
  /\ Idle

AuthenticateRace(r) ==
  Begin(r, {c \in CallsOf({"F1"}, {}) : c.op \in {"complete", "addMember"}})

RaceNext ==
  \E r \in Reqs :
    \/ AuthenticateRace(r)
    \/ Unauthorized(r)
    \/ AddMember(r)
    \/ CompleteFind(r)
    \/ CompleteSaveTask(r)
    \/ CompleteSaveFamily(r)

RaceSpec == RaceInit /\ [][RaceNext]_vars

\* a stored task that was completed at instant 1, or is open
Stored(fam, assignedTo, dueDate, completed, createdAt) ==
  [DatedTask(fam, assignedTo, dueDate, createdAt) EXCEPT
     !.completed = completed, !.completedAt = IF completed THEN 1 ELSE 0]

\* ReadSpec: the overdue and per-member queries of family F1, with
\* completions and dueDate updates between them, one request after the other,
\* over a store of tasks of both families and a registry with scores.
Registries ==
  { <<>>,
    <<[name |-> "Alice", score |-> 0]>>,
    <<[name |-> "Alice", score |-> 1], [name |-> "Bob", score |-> 0]>>,
    <<[name |-> "Bob", score |-> 0], [name |-> "Bob", score |-> 1]>> }

ReadInit ==
  /\ \E members \in Registries :
       family = [f \in Families |->
                   IF f = "F1" THEN [members |-> members, version |-> 0] ELSE NoFamily]
  /\ incs = [f \in Families |-> [i \in 1..Len(family[f].members) |-> 0]]
  /\ tasks \in [TaskIds ->
                  {NoTask} \cup
                  {Stored(f, a, due, done, 1) :
                     f \in Families, a \in MemberNames \cup {NoName},
                     due \in {0} \cup Instants, done \in BOOLEAN}]
  /\ nextId = MaxTasks + 1
  /\ credits = [t \in TaskIds |-> 0]
  /\ Idle

AuthenticateRead(r) ==
  /\ \A q \in Reqs : pc[q] = "idle"
  /\ r = 1
  /\ Begin(r, {c \in CallsOf({"F1"}, Instants) :
                 \/ c.op \in {"overdue", "members", "complete"}
                 \/ c.op = "update" /\ c.due # 0})

ReadNext ==
  \E r \in Reqs :
    \/ AuthenticateRead(r)
    \/ Unauthorized(r)
    \/ Overdue(r)
    \/ MemberStats(r)
    \/ UpdateFind(r)
    \/ UpdateSave(r)
    \/ CompleteFind(r)
    \/ CompleteSaveTask(r)
    \/ CompleteSaveFamily(r)

ReadSpec == ReadInit /\ [][ReadNext]_vars

\* HistorySpec: the history query of family F1 over a store of tasks of both
\* families created at the instants of the calendar.
HistoryInit ==
  /\ family = [f \in Families |-> NoFamily]
  /\ incs = [f \in Families |-> <<>>]
  /\ tasks \in [TaskIds ->
                  {NoTask} \cup
                  {Stored(f, NoName, 0, done, at) :
                     f \in Families, done \in BOOLEAN, at \in Moments}]
  /\ nextId = MaxTasks + 1
  /\ credits = [t \in TaskIds |-> 0]
  /\ Idle

AuthenticateHistory(r) ==
  /\ \A q \in Reqs : pc[q] = "idle"
  /\ r = 1
  /\ Begin(r, {c \in CallsOf({"F1"}, {}) : c.op = "history"})

HistoryNext ==
  \E r \in Reqs : AuthenticateHistory(r) \/ Unauthorized(r) \/ History(r)

HistorySpec == HistoryInit /\ [][HistoryNext]_vars

\* ------------------------------------------------------------ properties
Score(f, i) == family[f].members[i].score
Members(f) == 1..Len(family[f].members)

\* the member a task assigned to `name` belongs to: the first of that name in
\* the registry (0: the task has no assignee, or the name is nobody's)
Assignee(members, name) ==
  IF name # NoName /\ \E i \in 1..Len(members) : members[i].name = name
  THEN CHOOSE i \in 1..Len(members) :
         members[i].name = name /\ \A j \in 1..(i - 1) : members[j].name # name
  ELSE 0

\* request r returns in this step
Returns(r) == pc[r] # "idle" /\ pc'[r] = "idle"

\* the tasks stored completed whose assignee is member i of family f
CompletedFor(f, i) ==
  {t \in TaskIds : /\ tasks[t].exists /\ tasks[t].family = f /\ tasks[t].completed
                   /\ Assignee(family[f].members, tasks[t].assignedTo) = i}

\* C1: when complete is called twice in sequence on a task (the second call
\* begins after the first returned, nothing in between), both calls reply
\* completed = true, the second replies and leaves the completedAt the first
\* one stored, the second issues no Task and no Family write, and the score
\* of the assigned member is exactly 1 above its value before the first call.
C1_SecondCompleteIsNoOp ==
  [][\A r \in Reqs :
       (/\ Returns(r) /\ req[r].op = "complete"
        /\ out.req = req[r] /\ out.reply.status = 200)
       => /\ out.reply.completed
          /\ out'.reply.status = 200 /\ out'.reply.completed
          /\ out'.reply.completedAt = out.reply.completedAt
          /\ tasks'[req[r].tid].completedAt = out.reply.completedAt
          /\ out'.log = <<>>
          /\ tasks' = tasks /\ family' = family
          /\ LET i == Assignee(out.snap.members, tasks[req[r].tid].assignedTo)
             IN  (out.log = <<"task", "family">>)
                   => family'[req[r].fam].members[i].score
                        = out.snap.members[i].score + 1]_vars

\* the second of two complete calls in sequence has returned, the first
\* having credited the member once
C1_Witness ==
  \E t \in TaskIds :
    /\ out.req.op = "complete" /\ out.req.tid = t
    /\ out.reply.status = 200 /\ out.log = <<>>
    /\ tasks[t].completed /\ credits[t] = 1
    /\ Assignee(out.snap.members, tasks[t].assignedTo) # 0
    /\ out.snap.members[Assignee(out.snap.members, tasks[t].assignedTo)].score = 1

C3_AtMostOneIncrementPerTask == \A t \in TaskIds : credits[t] <= 1

\* C4: for every stored task, completedAt is set if and only if completed
\* is true.
C4_CompletedAtIffCompleted ==
  \A t \in TaskIds :
    tasks[t].exists => (tasks[t].completedAt # 0 <=> tasks[t].completed)

\* C5: each member's stored score equals the number of completions that
\* incremented and persisted it, also when the completions are of different
\* tasks (no task is credited twice) and run concurrently.
C5_ScoreCountsIncrements ==
  (\A t \in TaskIds : credits[t] <= 1)
    => \A f \in Families : \A i \in Members(f) : Score(f, i) = incs[f][i]

\* C6: no step of any interleaving lowers a member's stored score.
C6_ScoreNeverDecreases ==
  [][\A f \in Families : \A i \in Members(f) :
       family'[f].members[i].score >= family[f].members[i].score]_vars

\* C7: the first completion of a task whose assignedTo is the name of a
\* member of the caller's Family goes on to the Family write, which adds
\* exactly 1 to that member's score, leaves every other member as it was,
\* and replies memberScore = the member's new score.
C7_FirstCompletionCredits ==
  [][\A r \in Reqs : req[r].op = "complete" =>
       LET f == req[r].fam
           t == req[r].tid
           i == Assignee(family[f].members, tasks[t].assignedTo)
       IN  /\ (pc[r] = "saveTask" /\ tasks' # tasks /\ i # 0)
                => pc'[r] = "saveFamily"
           /\ (pc[r] = "saveFamily" /\ Returns(r) /\ out'.reply.status = 200)
                => /\ i # 0
                   /\ family[f].members[i].name = tasks[t].assignedTo
                   /\ family' = [family EXCEPT ![f].members[i].score = @ + 1]
                   /\ out'.reply.memberScore = family'[f].members[i].score
                   /\ out'.reply.completed]_vars

\* Alice and Bob at 0, a task assigned to Alice completed: memberScore 1,
\* Alice 1, Bob 0
C7_Witness ==
  /\ out.req.op = "complete" /\ out.reply.memberScore = 1
  /\ family["F1"].members = <<[name |-> "Alice", score |-> 1],
                              [name |-> "Bob", score |-> 0]>>

\* C8: completing a task that has no assignee, or whose assignee is the name
\* of no member of the caller's Family, stores completed and completedAt,
\* leaves every score as it was, issues no Family write and replies without
\* memberScore.
C8_NoMatchNoScore ==
  [][\A r \in Reqs :
       (/\ req[r].op = "complete" /\ pc[r] = "saveTask" /\ tasks' # tasks
        /\ Assignee(family[req[r].fam].members, tasks[req[r].tid].assignedTo) = 0)
       => /\ tasks'[req[r].tid].completed
          /\ tasks'[req[r].tid].completedAt = doc[r].completedAt
          /\ doc[r].completedAt \in Instants
          /\ family' = family
          /\ Returns(r)
          /\ out'.log = <<"task">>
          /\ out'.reply.status = 200 /\ out'.reply.completed
          /\ out'.reply.completedAt = doc[r].completedAt
          /\ out'.reply.memberScore = Omitted]_vars

\* a task assigned to Bob, who is no member, has been completed
C8_Witness ==
  \E t \in TaskIds :
    /\ out.req.op = "complete" /\ out.req.tid = t /\ out.log = <<"task">>
    /\ tasks[t].completed /\ tasks[t].assignedTo = "Bob"
    /\ Assignee(family[tasks[t].family].members, "Bob") = 0

C10_PartialFailureStays ==
  [][\A r \in Reqs : req[r].op = "complete" =>
       /\ (pc[r] = "saveFamily" /\ Returns(r) /\ out'.reply.status = 500)
            => /\ tasks'[req[r].tid].completed
               /\ family' = family /\ tasks' = tasks
               /\ out'.log = <<"task">>
       /\ (/\ Returns(r) /\ out.req = req[r]
           /\ out.reply.status = 500 /\ out.log = <<"task">>)
            => /\ out'.reply.status = 200 /\ out'.reply.completed
               /\ out'.reply.memberScore = Omitted
               /\ out'.log = <<>>
               /\ family' = family /\ tasks' = tasks]_vars

\* a completion stopped between its two writes, and the next complete call
\* on that task is under way
C10_Witness ==
  \E r \in Reqs :
    /\ out.req.op = "complete" /\ out.reply.status = 500 /\ out.log = <<"task">>
    /\ req[r] = out.req /\ pc[r] = "find"
    /\ tasks[out.req.tid].completed
    /\ Score(out.req.fam, Assignee(family[out.req.fam].members,
                                   tasks[out.req.tid].assignedTo)) = 0

\* the tasks stored for family f
Owned(f) == {t \in TaskIds : tasks[t].exists /\ tasks[t].family = f}

\* request r takes this step
Steps(r) == pc'[r] # pc[r]

\* C11: complete, update, assign, delete or add-comment by a caller of
\* family F on a task id that has no document, or whose document belongs to
\* another family, fails with 404 and leaves every stored task and every
\* member's score unchanged.
C11_ForeignTaskNotFound ==
  [][\A r \in Reqs :
       (/\ Steps(r) /\ pc[r] \in {"find", "remove"} /\ req[r].op \in TaskOps
        /\ req[r].tid \notin Owned(req[r].fam))
       => /\ pc'[r] = "idle"
          /\ out'.req = req[r] /\ out'.reply.status = 404 /\ out'.log = <<>>
          /\ tasks' = tasks /\ family' = family]_vars

\* a caller got 404 for a task that exists and belongs to the other
\* family, which has a member with a score
C11_Witness ==
  /\ out.req.op \in {"complete", "update", "delete"}
  /\ out.reply.status = 404
  /\ out.req.tid \in TaskIds
  /\ tasks[out.req.tid].exists /\ tasks[out.req.tid].family # out.req.fam
  /\ tasks[out.req.tid].assignedTo = "Alice"
  /\ ~tasks[out.req.tid].completed

\* C12: the overdue reply lists a task of the caller's family if and only
\* if the task is not completed, has a dueDate, and the dueDate is strictly
\* earlier than the instant of the query; each such task is listed once.
C12_OverdueSelection ==
  [][\A r \in Reqs :
       (Returns(r) /\ req[r].op = "overdue")
       => LET listed == out'.reply.body
              now == out'.reply.query
          IN  /\ out'.reply.status = 200
              /\ \A t \in TaskIds :
                    (\E i \in 1..Len(listed) : listed[i] = t)
                      <=> /\ t \in Owned(req[r].fam)
                          /\ ~tasks[t].completed
                          /\ tasks[t].dueDate # 0
                          /\ tasks[t].dueDate < now
              /\ \A i, j \in 1..Len(listed) : listed[i] = listed[j] => i = j]_vars

\* an unassigned task due before the query has been completed (at instant
\* 2) and is not in the overdue reply, which lists another task
C12_Witness ==
  /\ out.req.op = "overdue"
  /\ \E t \in Owned(out.req.fam) :
       /\ tasks[t].assignedTo = NoName
       /\ tasks[t].completed /\ tasks[t].completedAt = 2
       /\ tasks[t].dueDate # 0 /\ tasks[t].dueDate < out.reply.query
       /\ \A i \in 1..Len(out.reply.body) : out.reply.body[i] # t
  /\ Len(out.reply.body) = 1

\* C13: once a task's completedAt is set, no operation clears it or replaces
\* it by another instant.
C13_CompletedAtSetOnce ==
  [][\A t \in TaskIds :
       (tasks[t].exists /\ tasks[t].completedAt # 0 /\ tasks'[t].exists)
       => tasks'[t].completedAt = tasks[t].completedAt]_vars

\* C14: the per-member summary has one record per member of the registry,
\* in registry order; a member's totalTasks is the number of the family's
\* tasks whose assignedTo equals its name (0 when there are none), its
\* completedTasks the number of those that are completed, at most
\* totalTasks, and its score the stored score field.
C14_MemberSummary ==
  [][\A r \in Reqs :
       (Returns(r) /\ req[r].op = "members")
       => LET f == req[r].fam
              rows == out'.reply.body
              mine(i) == {t \in Owned(f) :
                            tasks[t].assignedTo = family[f].members[i].name}
          IN  /\ out'.reply.status = 200
              /\ Len(rows) = Len(family[f].members)
              /\ \A i \in Members(f) :
                    /\ rows[i].member = family[f].members[i].name
                    /\ rows[i].totalTasks = Cardinality(mine(i))
                    /\ rows[i].completedTasks
                         = Cardinality({t \in mine(i) : tasks[t].completed})
                    /\ rows[i].completedTasks <= rows[i].totalTasks
                    /\ rows[i].score = Score(f, i)]_vars

\* a summary of two members: the first with one task, not completed, and
\* score 1; the second with no task and zero counts, while another task of
\* the family is assigned to nobody
C14_Witness ==
  /\ out.req.op = "members" /\ Len(out.reply.body) = 2
  /\ out.reply.body[1].totalTasks = 1 /\ out.reply.body[1].completedTasks = 0
  /\ out.reply.body[1].score = 1
  /\ out.reply.body[2].totalTasks = 0 /\ out.reply.body[2].completedTasks = 0
  /\ Cardinality(Owned(out.req.fam)) = 2

\* the sum of field `count` over the buckets of a reply
RECURSIVE SumOf(_, _)
SumOf(rows, count) ==
  IF rows = <<>> THEN 0 ELSE Head(rows)[count] + SumOf(Tail(rows), count)

\* C15: for either granularity the totals of the history buckets add up to
\* the number of tasks of the family and their completed counts to the
\* number of its completed tasks; the bucket keys are distinct and every
\* task is counted in exactly one bucket, the one keyed by its createdAt.
C15_HistoryConservation ==
  [][\A r \in Reqs :
       (Returns(r) /\ req[r].op = "history")
       => LET f == req[r].fam
              rows == out'.reply.body
              keyed(k) == {t \in Owned(f) :
                             PeriodKey(out'.reply.query, Calendar[tasks[t].createdAt]) = k}
          IN  /\ out'.reply.query \in {"week", "month"}
              /\ SumOf(rows, "total") = Cardinality(Owned(f))
              /\ SumOf(rows, "completed")
                   = Cardinality({t \in Owned(f) : tasks[t].completed})
              /\ \A i, j \in 1..Len(rows) : rows[i].period = rows[j].period => i = j
              /\ \A i \in 1..Len(rows) :
                    /\ rows[i].total = Cardinality(keyed(rows[i].period))
                    /\ rows[i].total > 0
                    /\ rows[i].completed
                         = Cardinality({t \in keyed(rows[i].period) : tasks[t].completed})
              /\ \A t \in Owned(f) :
                    \E i \in 1..Len(rows) : t \in keyed(rows[i].period)]_vars

\* a history of a family with two tasks, one of them completed, counted in
\* one bucket, while the store holds no other family's task in the reply
C15_Witness ==
  /\ out.req.op = "history" /\ Len(out.reply.body) = 1
  /\ out.reply.body[1].total = 2 /\ out.reply.body[1].completed = 1
  /\ Cardinality(Owned(out.req.fam)) = 2
  /\ \E t, u \in Owned(out.req.fam) : tasks[t].createdAt # tasks[u].createdAt

\* C16: a task's family field never changes after creation.
C16_FamilyNeverChanges ==
  [][\A t \in TaskIds :
       (tasks[t].exists /\ tasks'[t].exists)
       => tasks'[t].family = tasks[t].family]_vars

\* the names of the registry of family f
Names(f) == {family[f].members[i].name : i \in Members(f)}

\* C17: assign to a name that no member of the caller's family bears fails
\* with 404 (member not found) and leaves the task as it was; an assign that
\* succeeds changes assignedTo alone, to a name of the registry.  A
\* completion of a task whose assignedTo is nobody's name finds no match: it
\* writes the task only and replies without memberScore.
C17_AssignNeedsMember ==
  [][\A r \in Reqs :
       /\ (/\ Steps(r) /\ req[r].op = "assign" /\ pc[r] = "find"
           /\ req[r].tid \in Owned(req[r].fam))
          => /\ tasks' = tasks /\ family' = family
             /\ IF pc'[r] = "idle"
                THEN /\ out'.reply.status = 404
                     /\ out'.reply.query \notin Names(req[r].fam)
                ELSE doc'[r].assignedTo \in Names(req[r].fam)
       /\ (/\ Returns(r) /\ req[r].op = "assign" /\ pc[r] = "saveTask"
           /\ out'.reply.status = 200)
          => /\ tasks'[req[r].tid].assignedTo \in Names(req[r].fam)
             /\ tasks' = [tasks EXCEPT ![req[r].tid].assignedTo =
                                         tasks'[req[r].tid].assignedTo]
             /\ family' = family
       /\ (/\ Returns(r) /\ req[r].op = "complete" /\ pc[r] = "saveTask"
           /\ doc[r].assignedTo \notin Names(req[r].fam))
          => /\ out'.reply.status \in {200, 500}
             /\ out'.reply.memberScore = Omitted
             /\ family' = family]_vars

\* an assign to Bob was refused, nobody of the registry being Bob, and the
\* task is still assigned to Alice
C17_Witness ==
  /\ out.req.op = "assign" /\ out.reply.status = 404
  /\ out.req.tid \in Owned(out.req.fam)
  /\ out.reply.query = "Bob" /\ "Bob" \notin Names(out.req.fam)
  /\ tasks[out.req.tid].assignedTo = "Alice"

\* C18: no step of an assign, an update or a delete changes a member's
\* score: reassigning or deleting a completed task leaves the increment
\* with the member credited at completion, and the new assignee gains
\* nothing.
C18_NoReversal ==
  [][\A r \in Reqs :
       (Steps(r) /\ req[r].op \in {"assign", "update", "delete"})
       => family' = family]_vars

\* a task completed for Alice (score 1) has been reassigned to Bob, whose
\* score is 0
C18_Witness ==
  /\ out.req.op = "assign" /\ out.reply.status = 200
  /\ credits[out.req.tid] = 1
  /\ tasks[out.req.tid].completed /\ tasks[out.req.tid].assignedTo = "Bob"
  /\ family[out.req.fam].members
       = <<[name |-> "Alice", score |-> 1], [name |-> "Bob", score |-> 0]>>

\* the weekday of 1 January (Sunday = 0) in the years of the calendar
NewYearDay(y) == IF y = 2023 THEN 0 ELSE 1

\* ceil(((d - Jan 1, in days) + weekday of Jan 1 + 1) / 7): the least n
\* with 7 n at least the dividend, in half days
WeekOfYear(d) ==
  LET x == 2 * DayOfYear(d) + d.half + 2 * (NewYearDay(d.year) + 1)
  IN  CHOOSE n \in 0..54 : 14 * (n - 1) < x /\ x <= 14 * n

\* YYYY and a two-digit, zero-padded number
FourDigits(n) ==
  <<DigitChars[((n \div 1000) % 10) + 1], DigitChars[((n \div 100) % 10) + 1],
    DigitChars[((n \div 10) % 10) + 1], DigitChars[(n % 10) + 1]>>
TwoDigits(n) == <<DigitChars[((n \div 10) % 10) + 1], DigitChars[(n % 10) + 1]>>

\* the key a task created at d is expected under: YYYY-Www, YYYY-MM
Label(period, d) ==
  IF period = "week"
  THEN FourDigits(d.year) \o <<"-", "W">> \o TwoDigits(WeekOfYear(d))
  ELSE FourDigits(d.year) \o <<"-">> \o TwoDigits(d.month + 1)

\* the instants of 2024-01-02 and 2024-01-09 in the calendar
Jan02 == CHOOSE m \in Moments :
           Calendar[m] = [year |-> 2024, month |-> 0, date |-> 2, half |-> 0]
Jan09 == CHOOSE m \in Moments :
           Calendar[m] = [year |-> 2024, month |-> 0, date |-> 9, half |-> 0]

\* C19: with period=week a task created at d is counted under the key
\* YYYY-Www, YYYY the year of d and ww the two-digit, zero-padded
\* ceil(((d - Jan 1 in days) + weekday of Jan 1 + 1) / 7), and with
\* period=month under YYYY-MM; tasks created on 2024-01-02 and 2024-01-09
\* make two week buckets of total 1, 2024-W01 and 2024-W02, and the one month
\* bucket 2024-01 of total 2.
C19_WeekKey ==
  [][\A r \in Reqs :
       (Returns(r) /\ req[r].op = "history")
       => LET f == req[r].fam
              rows == out'.reply.body
              period == out'.reply.query
              label(t) == Label(period, Calendar[tasks[t].createdAt])
          IN  /\ \A t \in Owned(f) : \E i \in 1..Len(rows) : rows[i].period = label(t)
              /\ \A i \in 1..Len(rows) :
                    rows[i].total
                      = Cardinality({t \in Owned(f) : label(t) = rows[i].period})
              /\ (/\ Cardinality(Owned(f)) = 2
                  /\ {tasks[t].createdAt : t \in Owned(f)} = {Jan02, Jan09})
                   => /\ period = "week" =>
                           /\ Len(rows) = 2
                           /\ rows[1].period = <<"2", "0", "2", "4", "-", "W", "0", "1">>
                           /\ rows[2].period = <<"2", "0", "2", "4", "-", "W", "0", "2">>
                           /\ rows[1].total = 1 /\ rows[2].total = 1
                      /\ period = "month" =>
                           /\ Len(rows) = 1
                           /\ rows[1].period = <<"2", "0", "2", "4", "-", "0", "1">>
                           /\ rows[1].total = 2]_vars

\* the week history of tasks created on 2024-01-02 and 2024-01-09: two
\* buckets
C19_Witness ==
  /\ out.req.op = "history" /\ out.reply.query = "week"
  /\ Cardinality(Owned(out.req.fam)) = 2
  /\ {tasks[t].createdAt : t \in Owned(out.req.fam)} = {Jan02, Jan09}
  /\ Len(out.reply.body) = 2
  /\ out.reply.body[2].period = <<"2", "0", "2", "4", "-", "W", "0", "2">>

\* the code unit of a character of a key
CharCode(ch) ==
  CASE ch = "-" -> 45
    [] ch = "W" -> 87
    [] OTHER -> 47 + (CHOOSE i \in 1..10 : DigitChars[i] = ch)

\* a is before b in lexicographic order
LexLess(a, b) ==
  \E k \in 1..Len(b) :
    /\ \A i \in 1..(k - 1) : i <= Len(a) /\ a[i] = b[i]
    /\ (k > Len(a) \/ (k <= Len(a) /\ CharCode(a[k]) < CharCode(b[k])))

\* C20: the history lists its buckets in strictly ascending lexicographic
\* order of their keys, and this order is chronological: every task counted
\* in a bucket was created before every task counted in a bucket listed
\* later.
C20_HistoryOrder ==
  [][\A r \in Reqs :
       (Returns(r) /\ req[r].op = "history")
       => LET f == req[r].fam
              rows == out'.reply.body
              counted(i) == {t \in Owned(f) :
                               Label(out'.reply.query, Calendar[tasks[t].createdAt])
                                 = rows[i].period}
          IN  \A i, j \in 1..Len(rows) :
                i < j => /\ LexLess(rows[i].period, rows[j].period)
                         /\ \A t \in counted(i), u \in counted(j) :
                               tasks[t].createdAt < tasks[u].createdAt]_vars

\* a history of two buckets whose first holds the task stored second
C20_Witness ==
  /\ out.req.op = "history" /\ Len(out.reply.body) = 2
  /\ Owned(out.req.fam) = TaskIds
  /\ tasks[2].createdAt < tasks[1].createdAt
  /\ LexLess(out.reply.body[1].period, out.reply.body[2].period)

\* C21: when the Task write of a first completion fails (the step of the
\* write leaves the stored tasks as they were), the request ends in that
\* step with an error reply, having issued no write: no retry, no Family
\* write, the stored task is still not completed and every stored score is
\* unchanged.
C21_TaskWriteFailure ==
  [][\A r \in Reqs :
       (/\ Steps(r) /\ req[r].op = "complete" /\ pc[r] = "saveTask"
        /\ tasks' = tasks)
       => /\ pc'[r] = "idle"
          /\ out'.req = req[r] /\ out'.reply.status = 500
          /\ out'.reply.memberScore = Omitted
          /\ out'.log = <<>>
          /\ family' = family
          /\ ~tasks'[req[r].tid].completed]_vars

\* the completion of a task assigned to a member of the registry has
\* failed at its Task write: the task is open, the member's score is 0
C21_Witness ==
  /\ out.req.op = "complete" /\ out.reply.status = 500 /\ out.log = <<>>
  /\ out.req.tid \in Owned(out.req.fam)
  /\ ~tasks[out.req.tid].completed /\ tasks[out.req.tid].completedAt = 0
  /\ LET i == Assignee(family[out.req.fam].members, tasks[out.req.tid].assignedTo)
     IN  i # 0 /\ Score(out.req.fam, i) = 0

\* the members of family f that bear `name`
Bearers(f, name) == {i \in Members(f) : family[f].members[i].name = name}

\* C22: when several members of the family bear the name in a task's
\* assignedTo, the first completion of the task adds 1 to the score of the
\* first of them in registry order and leaves every other member as it
\* was, while the per-member summary counts the task in the record of every
\* member of that name.
C22_DuplicateNames ==
  [][\A r \in Reqs :
       /\ (/\ Returns(r) /\ req[r].op = "complete" /\ pc[r] = "saveFamily"
           /\ out'.reply.status = 200
           /\ Cardinality(Bearers(req[r].fam, doc[r].assignedTo)) > 1)
          => LET f == req[r].fam
                 first == CHOOSE i \in Bearers(f, doc[r].assignedTo) :
                            \A j \in Bearers(f, doc[r].assignedTo) : i <= j
             IN  family' = [family EXCEPT ![f].members[first].score = @ + 1]
       /\ (Returns(r) /\ req[r].op = "members")
          => LET f == req[r].fam
                 rows == out'.reply.body
             IN  \A t \in Owned(f) : \A i \in Bearers(f, tasks[t].assignedTo) :
                   /\ rows[i].totalTasks
                        = Cardinality({u \in Owned(f) :
                                         tasks[u].assignedTo = tasks[t].assignedTo})
                   /\ rows[i].totalTasks >= 1
                   /\ tasks[t].completed => rows[i].completedTasks >= 1]_vars

\* two members named Bob, a task assigned to Bob completed once during the
\* run: the first Bob went from 0 to 1, the second kept his 1, and the
\* summary counts the task for both
C22_Witness ==
  /\ out.req.op = "members" /\ Len(out.reply.body) = 2
  /\ family[out.req.fam].members
       = <<[name |-> "Bob", score |-> 1], [name |-> "Bob", score |-> 1]>>
  /\ incs[out.req.fam] = <<1, 0>>
  /\ \E t \in Owned(out.req.fam) :
       /\ credits[t] = 1 /\ tasks[t].assignedTo = "Bob" /\ tasks[t].completed
       /\ \A u \in Owned(out.req.fam) : u = t
  /\ \A i \in 1..2 :
       out.reply.body[i].totalTasks = 1 /\ out.reply.body[i].completedTasks = 1
====
